---- MODULE Spec2Model ----
(***************************************************************************)
(* The callback system of pytorch_widedeep/callbacks.py as state machines. *)
(*                                                                         *)
(* One specification per component:                                        *)
(*   SpecContainer   CallbackContainer dispatching the six hooks           *)
(*   SpecHistory     History driven by a training loop                     *)
(*   SpecLR          LRHistory driven by a training loop                   *)
(*   SpecCheckpoint  ModelCheckpoint, with the files it writes and deletes *)
(*   SpecEarlyStop   EarlyStopping, with the model's weights and stop flag *)
(*                                                                         *)
(* Python values:                                                          *)
(*   Optional[x]  a sequence, <<>> for None and <<x>> for a value          *)
(*   Dict         a function from its keys to its values                   *)
(*   float        an integer; np.Inf / -np.Inf are Inf / NegInf, beyond    *)
(*                every metric value of the model                          *)
(***************************************************************************)
EXTENDS Integers, Sequences, FiniteSets, TLC

VARIABLES
    callbacks,      \* CallbackContainer.callbacks: the held instances, in order
    trace,          \* the hook invocations made by the last container call, in order
    call,           \* the last container call: its hook, arguments, and how it ended
    model_epoch,    \* model.epoch: the epoch-index list History keeps
    model_history,  \* model.history: metric name -> recorded values
    lrh,            \* the LRHistory instance (n_epochs) and the model's scheduler and optimizer
    model_lr_history, \* model.lr_history: group key -> recorded learning rates
    mc,             \* the ModelCheckpoint instance
    files,          \* the file system: the directories and snapshot files that exist
    es,             \* the EarlyStopping instance
    model_early_stop, \* model.early_stop: the stop flag the loop polls
    model_weights,  \* the model's weights, what model.state_dict() reads
    loop,           \* the training loop driving a single callback
    obs             \* what the loop has observed of the run so far (history variable)

containerVars == <<callbacks, trace, call>>

historyVars == <<model_epoch, model_history>>

lrVars == <<lrh, model_lr_history>>

ckptVars == <<mc, files>>

esVars == <<es, model_early_stop, model_weights>>

vars == <<callbacks, trace, call, model_epoch, model_history, lrh, model_lr_history,
          mc, files, es, model_early_stop, model_weights, loop, obs>>

\* what each component leaves alone
exceptContainer == <<historyVars, lrVars, ckptVars, esVars>>

exceptHistory == <<containerVars, lrVars, ckptVars, esVars>>

exceptLR == <<containerVars, historyVars, ckptVars, esVars>>

exceptCkpt == <<containerVars, historyVars, lrVars, esVars>>

exceptES == <<containerVars, historyVars, lrVars, ckptVars>>

----------------------------------------------------------------------------
(* Python helpers *)

None == <<>>

Some(x) == <<x>>

IsNone(o) == Len(o) = 0

EmptyDict == [k \in {} |-> 0]

\* d[k] = v
DictSet(d, k, v) == [x \in (DOMAIN d) \cup {k} |-> IF x = k THEN v ELSE d[x]]

\* d.get(k): the value, or None
DictGet(d, k) == IF k \in DOMAIN d THEN Some(d[k]) ELSE None

\* `logs or {}`: None and the empty dict are both falsy
OrEmptyDict(logs) == IF IsNone(logs) THEN EmptyDict
                     ELSE IF DOMAIN logs[1] = {} THEN EmptyDict ELSE logs[1]

\* every dict with keys among `keys` and values among `values`
Dicts(keys, values) == UNION {[ks -> values] : ks \in SUBSET keys}

\* every Optional[Dict] over those keys and values
OptDicts(keys, values) == {None} \cup {Some(d) : d \in Dicts(keys, values)}

----------------------------------------------------------------------------
(* CallbackContainer *)

\* Bounds of the container model
MaxCallbacks == 2

\* the callbacks a caller may register; each is given as an instance or as a class
CallbackNames == {"cbA", "cbB"}

CallbackArgs == [name : CallbackNames, given : {"instance", "class"}]

\* lists of at most n registered callbacks
CallbackLists(n) == UNION {[1..k -> CallbackArgs] : k \in 0..n}

\* the clock readings _get_current_time() may return
Times == {7, 8}

\* the event index (epoch or batch number) a hook is called with
IndexArgs == {0, 1}

\* the logs the loop may hand to the container
ContainerLogs == OptDicts({"loss", "start_time"}, {1})

Hooks == {"on_epoch_begin", "on_epoch_end", "on_batch_begin", "on_batch_end",
          "on_train_begin", "on_train_end"}

\* __init__: a class is instantiated, an instance is kept; order is kept
CallbackContainer_init(cbs) ==
    [i \in 1..Len(cbs) |-> cbs[i].name]

\* `for callback in self.callbacks: callback.<hook>(...)`, from position i on.
\* The callback at position `raiser` (0: none) raises inside its hook: the
\* exception leaves the loop, nothing catches it.
\* Each invocation records whether it raised.
\* a dispatch loop that catches a callback's exception and goes on
RECURSIVE ForEachCallbackIsolated(_, _, _, _, _, _)
ForEachCallbackIsolated(cbs, i, hook, index, logs, raiser) ==
    IF i > Len(cbs) THEN <<>>
    ELSE <<[cb |-> cbs[i], hook |-> hook, index |-> index, logs |-> logs,
            raised |-> (i = raiser)]>>
             \o ForEachCallbackIsolated(cbs, i + 1, hook, index, logs, raiser)

RECURSIVE ForEachCallback(_, _, _, _, _, _)
ForEachCallback(cbs, i, hook, index, logs, raiser) ==
    IF i > Len(cbs) THEN <<>>
    ELSE LET inv == [cb |-> cbs[i], hook |-> hook, index |-> index, logs |-> logs,
                     raised |-> (i = raiser)]
         IN  IF i = raiser THEN <<inv>>
             ELSE <<inv>> \o ForEachCallback(cbs, i + 1, hook, index, logs, raiser)

\* a hook call of the container raises when the last invocation it made raised
Raised(invocations) ==
    Len(invocations) > 0 /\ invocations[Len(invocations)].raised

CallbackContainer_on_epoch_begin(cbs, epoch, logs, raiser) ==
    ForEachCallback(cbs, 1, "on_epoch_begin", Some(epoch), OrEmptyDict(logs), raiser)

\* a dispatch loop that starts one position late
CallbackContainer_on_epoch_end_late(cbs, epoch, logs, raiser) ==
    ForEachCallback(cbs, 2, "on_epoch_end", Some(epoch), OrEmptyDict(logs), raiser)

CallbackContainer_on_epoch_end(cbs, epoch, logs, raiser) ==
    ForEachCallback(cbs, 1, "on_epoch_end", Some(epoch), OrEmptyDict(logs), raiser)

CallbackContainer_on_batch_begin(cbs, batch, logs, raiser) ==
    ForEachCallback(cbs, 1, "on_batch_begin", Some(batch), OrEmptyDict(logs), raiser)

CallbackContainer_on_batch_end(cbs, batch, logs, raiser) ==
    ForEachCallback(cbs, 1, "on_batch_end", Some(batch), OrEmptyDict(logs), raiser)

\* on_train_begin forwarding the logs as given
CallbackContainer_on_train_begin_plain(cbs, logs, now, raiser) ==
    ForEachCallback(cbs, 1, "on_train_begin", None, OrEmptyDict(logs), raiser)

CallbackContainer_on_train_begin(cbs, logs, now, raiser) ==
    ForEachCallback(cbs, 1, "on_train_begin", None,
                    DictSet(OrEmptyDict(logs), "start_time", now), raiser)

CallbackContainer_on_train_end(cbs, logs, raiser) ==
    ForEachCallback(cbs, 1, "on_train_end", None, OrEmptyDict(logs), raiser)

NoCall == [hook |-> "none", logs |-> None, raiser |-> 0, raised |-> FALSE]

IdleLoop == [phase |-> "idle"]

IdleContainer == callbacks = <<>> /\ trace = <<>> /\ call = NoCall

IdleHistory == model_epoch = <<>> /\ model_history = EmptyDict

IdleLR == lrh = [n_epochs |-> 0] /\ model_lr_history = EmptyDict

IdleCkpt == mc = [raised |-> "not constructed"] /\ files = [dirs |-> {}, snapshots |-> {}]

IdleES == es = [patience |-> 0] /\ model_early_stop = FALSE /\ model_weights = 0

\* obs.registered: the list the container was constructed with
InitContainer ==
    /\ \E cbs \in CallbackLists(MaxCallbacks) :
           /\ callbacks = CallbackContainer_init(cbs)
           /\ obs = [registered |-> cbs]
    /\ trace = <<>>
    /\ call = NoCall
    /\ loop = IdleLoop
    /\ IdleHistory
    /\ IdleLR
    /\ IdleCkpt
    /\ IdleES

Called(hook, logs, raiser) ==
    /\ call' = [hook |-> hook, logs |-> logs, raiser |-> raiser, raised |-> Raised(trace')]
    /\ UNCHANGED <<callbacks, loop, obs, exceptContainer>>

ContainerOnEpochBegin ==
    \E epoch \in IndexArgs, logs \in ContainerLogs, raiser \in 0..Len(callbacks) :
        /\ trace' = CallbackContainer_on_epoch_begin(callbacks, epoch, logs, raiser)
        /\ Called("on_epoch_begin", logs, raiser)

ContainerOnEpochEnd ==
    \E epoch \in IndexArgs, logs \in ContainerLogs, raiser \in 0..Len(callbacks) :
        /\ trace' = CallbackContainer_on_epoch_end(callbacks, epoch, logs, raiser)
        /\ Called("on_epoch_end", logs, raiser)

ContainerOnBatchBegin ==
    \E batch \in IndexArgs, logs \in ContainerLogs, raiser \in 0..Len(callbacks) :
        /\ trace' = CallbackContainer_on_batch_begin(callbacks, batch, logs, raiser)
        /\ Called("on_batch_begin", logs, raiser)

ContainerOnBatchEnd ==
    \E batch \in IndexArgs, logs \in ContainerLogs, raiser \in 0..Len(callbacks) :
        /\ trace' = CallbackContainer_on_batch_end(callbacks, batch, logs, raiser)
        /\ Called("on_batch_end", logs, raiser)

ContainerOnTrainBegin ==
    \E logs \in ContainerLogs, now \in Times, raiser \in 0..Len(callbacks) :
        /\ trace' = CallbackContainer_on_train_begin(callbacks, logs, now, raiser)
        /\ Called("on_train_begin", logs, raiser)

ContainerOnTrainEnd ==
    \E logs \in ContainerLogs, raiser \in 0..Len(callbacks) :
        /\ trace' = CallbackContainer_on_train_end(callbacks, logs, raiser)
        /\ Called("on_train_end", logs, raiser)

NextContainer ==
    \/ ContainerOnEpochBegin
    \/ ContainerOnEpochEnd
    \/ ContainerOnBatchBegin
    \/ ContainerOnBatchEnd
    \/ ContainerOnTrainBegin
    \/ ContainerOnTrainEnd

SpecContainer == InitContainer /\ [][NextContainer]_vars

\* C1: a container hook call in which no callback raises invokes that hook
\* on every held callback exactly once and in registration order: the
\* invocations made are, position by position, the registered callbacks.
C1_DispatchInOrder ==
    (call.hook # "none" /\ call.raiser = 0) =>
        /\ Len(trace) = Len(obs.registered)
        /\ \A i \in 1..Len(trace) :
               /\ trace[i].cb = obs.registered[i].name
               /\ trace[i].hook = call.hook

C1_Witness ==
    /\ call.hook = "on_epoch_end"
    /\ call.raiser = 0
    /\ Len(trace) = 2
    /\ trace[1].cb # trace[2].cb
    /\ obs.registered[1].given = "class"

\* C2: whatever logs on_train_begin is called with (None, empty, populated),
\* the logs every callback receives hold the key start_time.
C2_StartTimeInLogs ==
    call.hook = "on_train_begin" =>
        \A i \in 1..Len(trace) : "start_time" \in DOMAIN trace[i].logs

C2_Witness ==
    /\ call.hook = "on_train_begin"
    /\ IsNone(call.logs)
    /\ call.raiser = 0
    /\ Len(trace) = 2

\* C12: no error isolation: when callback i raises inside a hook, the
\* container's hook call raises, the callbacks registered before i have
\* completed that hook (in order, without raising), callback i is the last
\* one invoked, and no callback registered after i is invoked.
C12_NoErrorIsolation ==
    (call.hook # "none" /\ call.raiser > 0) =>
        /\ call.raised
        /\ Len(trace) = call.raiser
        /\ \A j \in 1..Len(trace) :
               /\ trace[j].cb = obs.registered[j].name
               /\ trace[j].hook = call.hook
               /\ trace[j].raised <=> (j = call.raiser)

C12_Witness ==
    /\ call.hook = "on_batch_end"
    /\ call.raiser = 1
    /\ call.raised
    /\ Len(callbacks) = 2
    /\ Len(trace) = 1

----------------------------------------------------------------------------
(* History *)

\* Bound: the epochs of one training session
MaxEpochs == 2

\* the per-epoch logs the loop may hand to History
HistoryLogs == OptDicts({"loss", "acc"}, {1, 2})

\* copy.deepcopy: an equal value sharing nothing; values here are immutable
deepcopy(x) == x

\* `for k, v in logs.items(): history.setdefault(k, []).append(v)`
SetdefaultAppend(history, logs) ==
    [k \in (DOMAIN history) \cup (DOMAIN logs) |->
        IF k \in DOMAIN logs
        THEN (IF k \in DOMAIN history THEN history[k] ELSE <<>>) \o <<logs[k]>>
        ELSE history[k]]

\* each handler maps the model's fields [epoch, history] to their new values
History_on_train_begin(m, logs) ==
    [epoch |-> <<>>, history |-> EmptyDict]

\* an on_epoch_begin that records nothing, as the base class's does
History_on_epoch_begin_silent(m, epoch, logs) == m

History_on_epoch_begin(m, epoch, logs) ==
    [m EXCEPT !.history = SetdefaultAppend(m.history, OrEmptyDict(deepcopy(logs)))]

History_on_epoch_end(m, epoch, logs) ==
    [epoch   |-> Append(m.epoch, epoch),
     history |-> SetdefaultAppend(m.history, OrEmptyDict(logs))]

ModelOfHistory == [epoch |-> model_epoch, history |-> model_history]

InitHistory ==
    /\ IdleContainer
    /\ IdleHistory
    /\ IdleLR
    /\ IdleCkpt
    /\ IdleES
    /\ loop = [phase |-> "idle", epoch |-> 0, logs |-> None]
    /\ obs = [seen |-> <<>>]

\* a (new) training session starts: between epochs, never inside one
HistoryOnTrainBegin ==
    /\ loop.phase \in {"idle", "train"}
    /\ LET m == History_on_train_begin(ModelOfHistory, None)
       IN  model_epoch' = m.epoch /\ model_history' = m.history
    /\ loop' = [phase |-> "train", epoch |-> 0, logs |-> None]
    /\ obs' = [seen |-> <<>>]
    /\ UNCHANGED exceptHistory

\* epoch loop.epoch begins with logs of the loop's choosing
HistoryOnEpochBegin ==
    /\ loop.phase = "train"
    /\ loop.epoch < MaxEpochs
    /\ \E logs \in HistoryLogs :
          /\ LET m == History_on_epoch_begin(ModelOfHistory, loop.epoch, logs)
             IN  model_epoch' = m.epoch /\ model_history' = m.history
          /\ loop' = [loop EXCEPT !.phase = "epoch", !.logs = logs]
    /\ UNCHANGED <<exceptHistory, obs>>

\* the epoch ends with the logs it began with
HistoryOnEpochEnd ==
    /\ loop.phase = "epoch"
    /\ LET m == History_on_epoch_end(ModelOfHistory, loop.epoch, loop.logs)
       IN  model_epoch' = m.epoch /\ model_history' = m.history
    /\ loop' = [phase |-> "train", epoch |-> loop.epoch + 1, logs |-> None]
    /\ obs' = [seen |-> Append(obs.seen, OrEmptyDict(loop.logs))]
    /\ UNCHANGED exceptHistory

NextHistory ==
    \/ HistoryOnTrainBegin
    \/ HistoryOnEpochBegin
    \/ HistoryOnEpochEnd

SpecHistory == InitHistory /\ [][NextHistory]_vars

\* the recorded length of key k (0 when the key was never recorded)
LenAt(h, k) == IF k \in DOMAIN h THEN Len(h[k]) ELSE 0

RecordedLen(k) == LenAt(model_history, k)

\* the epochs of this session whose logs held metric k
EpochsWith(k) == {e \in 1..Len(obs.seen) : k \in DOMAIN obs.seen[e]}

\* C3: between the epochs of a session that has run epochs 0..N-1 since its
\* on_train_begin, model.epoch is [0..N-1] and every metric's recorded
\* sequence is twice as long as the number of epochs whose logs held it; right
\* after on_train_begin (N = 0) both the epoch list and the history are empty.
C3_HistoryLengths ==
    loop.phase = "train" =>
        /\ model_epoch = [i \in 1..loop.epoch |-> i - 1]
        /\ \A k \in {"loss", "acc"} : RecordedLen(k) = 2 * Cardinality(EpochsWith(k))
        /\ DOMAIN model_history \subseteq {"loss", "acc"}
        /\ loop.epoch = 0 => model_history = EmptyDict

C3_Witness ==
    /\ loop.phase = "train"
    /\ loop.epoch = 2
    /\ RecordedLen("loss") = 4
    /\ RecordedLen("acc") = 2

----------------------------------------------------------------------------
(* LRHistory *)

\* Bounds: the largest n_epochs, and the batches of one epoch
MaxEpochsLR == 2

MaxBatches == 2

\* class names a scheduler may have
SingleSchedulerClasses == {"StepLR", "CyclicLR"}

SubSchedulerClasses == {"StepLR", "CyclicLR", "OneCycleLR"}

\* str.lower() on those names
lower(name) ==
    CASE name = "StepLR" -> "steplr"
      [] name = "CyclicLR" -> "cycliclr"
      [] name = "OneCycleLR" -> "onecyclelr"
      [] name = "MultipleLRScheduler" -> "multiplelrscheduler"

\* `"cycl" in s` on those lowered names
ContainsCycl(s) == s \in {"cycliclr", "onecyclelr"}

\* an optimizer's param_groups: the learning rate of each group
ParamGroups == {<<3>>, <<3, 5>>}

\* the named sub-optimizers of a multi-optimizer model, in dict order
SubOptimizerNames == <<"wide", "deep">>

SubOptimizers == [wide |-> [param_groups |-> <<3>>], deep |-> [param_groups |-> <<4, 6>>]]

\* The model as LRHistory reads it.  model.cyclic_lr is set by the trainer from
\* the single scheduler's class name.
NoSchedulerModels ==
    {[lr_scheduler |-> None, cyclic_lr |-> FALSE,
      optimizer |-> [param_groups |-> g, optimizers |-> EmptyDict]] : g \in ParamGroups}

SingleSchedulerModels ==
    {[lr_scheduler |-> Some([class |-> c, schedulers |-> EmptyDict]),
      cyclic_lr |-> ContainsCycl(lower(c)),
      optimizer |-> [param_groups |-> g, optimizers |-> EmptyDict]] :
        c \in SingleSchedulerClasses, g \in ParamGroups}

MultipleSchedulerModels ==
    {[lr_scheduler |-> Some([class |-> "MultipleLRScheduler", schedulers |-> sch]),
      cyclic_lr |-> FALSE,
      optimizer |-> [param_groups |-> <<>>, optimizers |-> SubOptimizers]] :
        sch \in Dicts({"wide", "deep"}, SubSchedulerClasses)}

LRModels == NoSchedulerModels \cup SingleSchedulerModels \cup MultipleSchedulerModels

\* Python truthiness of model.lr_scheduler: None is falsy, a scheduler object truthy
Truthy(o) == ~IsNone(o)

LRHistory_multiple_scheduler(m) ==
    m.lr_scheduler[1].class = "MultipleLRScheduler"

LRHistory_has_scheduler(m, model_name) ==
    model_name \in DOMAIN m.lr_scheduler[1].schedulers

\* a test that takes every sub-optimizer with a sub-scheduler for a cyclic one
LRHistory_is_scheduled(m, model_name) ==
    model_name \in DOMAIN m.lr_scheduler[1].schedulers

LRHistory_is_cyclic(m, model_name) ==
    /\ LRHistory_has_scheduler(m, model_name)
    /\ ContainsCycl(lower(m.lr_scheduler[1].schedulers[model_name]))

\* ("_").join(["lr", model_name, str(group_idx)]) or ("_").join(["lr", str(group_idx)])
GroupName(model_name, group_idx) ==
    IF IsNone(model_name)
    THEN "lr" \o "_" \o ToString(group_idx)
    ELSE "lr" \o "_" \o model_name[1] \o "_" \o ToString(group_idx)

\* `for group_idx, group in enumerate(opt.param_groups)` from index group_idx on
RECURSIVE SaveGroupsFrom(_, _, _, _)
SaveGroupsFrom(history, param_groups, model_name, group_idx) ==
    IF group_idx >= Len(param_groups) THEN history
    ELSE LET group_name == GroupName(model_name, group_idx)
             lr == param_groups[group_idx + 1]
         IN  SaveGroupsFrom(SetdefaultAppend(history, [k \in {group_name} |-> lr]),
                            param_groups, model_name, group_idx + 1)

LRHistory_save_group_lr(history, opt, model_name) ==
    SaveGroupsFrom(history, opt.param_groups, model_name, 0)

\* `for model_name, opt in self.model.optimizer._optimizers.items()` over `names`
RECURSIVE SaveOptimizers(_, _, _, _)
SaveOptimizers(history, m, names, step_location) ==
    IF names = <<>> THEN history
    ELSE LET model_name == Head(names)
             opt == m.optimizer.optimizers[model_name]
             h1 == IF step_location = "on_epoch_begin"
                   THEN LRHistory_save_group_lr(history, opt, Some(model_name))
                   ELSE history
             h2 == IF step_location = "on_batch_end" /\ LRHistory_is_cyclic(m, model_name)
                   THEN LRHistory_save_group_lr(h1, opt, Some(model_name))
                   ELSE h1
             h3 == IF step_location = "on_epoch_end" /\ ~LRHistory_is_cyclic(m, model_name)
                   THEN LRHistory_save_group_lr(h2, opt, Some(model_name))
                   ELSE h2
         IN  SaveOptimizers(h3, m, Tail(names), step_location)

LRHistory_save_group_lr_mulitple_scheduler(history, m, step_location) ==
    SaveOptimizers(history, m, SubOptimizerNames, step_location)

\* on_epoch_begin that records whatever model.cyclic_lr says
LRHistory_on_epoch_begin_always(self, m, history, epoch) ==
    IF epoch = 0 /\ Truthy(m.lr_scheduler)
    THEN IF LRHistory_multiple_scheduler(m)
         THEN LRHistory_save_group_lr_mulitple_scheduler(EmptyDict, m, "on_epoch_begin")
         ELSE LRHistory_save_group_lr(EmptyDict, m.optimizer, None)
    ELSE history

\* each handler maps model.lr_history to its new value
LRHistory_on_epoch_begin(self, m, history, epoch) ==
    IF epoch = 0 /\ Truthy(m.lr_scheduler)
    THEN IF LRHistory_multiple_scheduler(m)
         THEN LRHistory_save_group_lr_mulitple_scheduler(EmptyDict, m, "on_epoch_begin")
         ELSE IF ~m.cyclic_lr
              THEN LRHistory_save_group_lr(EmptyDict, m.optimizer, None)
              ELSE EmptyDict
    ELSE history

LRHistory_on_batch_end(self, m, history, batch) ==
    IF Truthy(m.lr_scheduler)
    THEN IF LRHistory_multiple_scheduler(m)
         THEN LRHistory_save_group_lr_mulitple_scheduler(history, m, "on_batch_end")
         ELSE IF m.cyclic_lr
              THEN LRHistory_save_group_lr(history, m.optimizer, None)
              ELSE history
    ELSE history

\* on_epoch_end that records after the final epoch too
LRHistory_on_epoch_end_every(self, m, history, epoch) ==
    IF Truthy(m.lr_scheduler)
    THEN IF LRHistory_multiple_scheduler(m)
         THEN LRHistory_save_group_lr_mulitple_scheduler(history, m, "on_epoch_end")
         ELSE IF ~m.cyclic_lr
              THEN LRHistory_save_group_lr(history, m.optimizer, None)
              ELSE history
    ELSE history

LRHistory_on_epoch_end(self, m, history, epoch) ==
    IF epoch # (self.n_epochs - 1) /\ Truthy(m.lr_scheduler)
    THEN IF LRHistory_multiple_scheduler(m)
         THEN LRHistory_save_group_lr_mulitple_scheduler(history, m, "on_epoch_end")
         ELSE IF ~m.cyclic_lr
              THEN LRHistory_save_group_lr(history, m.optimizer, None)
              ELSE history
    ELSE history

\* lrh: the LRHistory instance's n_epochs and the model it is attached to
InitLR ==
    /\ IdleContainer
    /\ IdleHistory
    /\ IdleCkpt
    /\ IdleES
    /\ \E n \in 1..MaxEpochsLR, m \in LRModels : lrh = [n_epochs |-> n, model |-> m]
    /\ model_lr_history = EmptyDict
    /\ loop = [phase |-> "between", epoch |-> 0, batch |-> 0]
    /\ obs = [hook |-> "none", before |-> EmptyDict, batches |-> 0, complete |-> FALSE]

\* The loop runs epochs 0..n_epochs-1, each with any number of batches; a run
\* that has ended may be followed by another, again from epoch 0.
LROnEpochBegin ==
    /\ loop.phase = "between"
    /\ model_lr_history' =
           LRHistory_on_epoch_begin(lrh, lrh.model, model_lr_history, loop.epoch)
    /\ loop' = [loop EXCEPT !.phase = "epoch", !.batch = 0]
    /\ obs' = [hook |-> "on_epoch_begin", before |-> model_lr_history,
               batches |-> IF loop.epoch = 0 THEN 0 ELSE obs.batches,
               complete |-> FALSE]
    /\ UNCHANGED <<exceptLR, lrh>>

LROnBatchEnd ==
    /\ loop.phase = "epoch"
    /\ loop.batch < MaxBatches
    /\ model_lr_history' =
           LRHistory_on_batch_end(lrh, lrh.model, model_lr_history, loop.batch)
    /\ loop' = [loop EXCEPT !.batch = loop.batch + 1]
    /\ obs' = [obs EXCEPT !.hook = "on_batch_end", !.before = model_lr_history,
                          !.batches = obs.batches + 1]
    /\ UNCHANGED <<exceptLR, lrh>>

LROnEpochEnd ==
    /\ loop.phase = "epoch"
    /\ model_lr_history' =
           LRHistory_on_epoch_end(lrh, lrh.model, model_lr_history, loop.epoch)
    /\ loop' = [phase |-> "between",
                epoch |-> IF loop.epoch = lrh.n_epochs - 1 THEN 0 ELSE loop.epoch + 1,
                batch |-> 0]
    /\ obs' = [obs EXCEPT !.hook = "on_epoch_end", !.before = model_lr_history,
                          !.complete = (loop.epoch = lrh.n_epochs - 1)]
    /\ UNCHANGED <<exceptLR, lrh>>

NextLR ==
    \/ LROnEpochBegin
    \/ LROnBatchEnd
    \/ LROnEpochEnd

SpecLR == InitLR /\ [][NextLR]_vars

SingleScheduler ==
    Truthy(lrh.model.lr_scheduler) /\ ~LRHistory_multiple_scheduler(lrh.model)

\* the keys of a single optimizer's groups
SingleGroupKeys == {GroupName(None, g) : g \in 0..(Len(lrh.model.optimizer.param_groups) - 1)}

\* every key of `keys` is one entry longer in model.lr_history than in h, no other key changed
AppendedOneEach(h, keys) ==
    /\ DOMAIN model_lr_history = (DOMAIN h) \cup keys
    /\ \A k \in DOMAIN model_lr_history :
           LenAt(model_lr_history, k) = LenAt(h, k) + (IF k \in keys THEN 1 ELSE 0)

\* C8: with a single non-cyclic scheduler, a run of epochs 0..n_epochs-1
\* records one value per group at the begin of epoch 0 and one at the end of
\* every epoch but the final one: inside epoch e and after it each group holds
\* 1 + e values (n_epochs once the run is complete), and no on_batch_end call
\* changes the LR history.
C8_NonCyclicPerEpoch ==
    (SingleScheduler /\ ~lrh.model.cyclic_lr) =>
        /\ obs.hook = "on_batch_end" => model_lr_history = obs.before
        /\ (obs.hook = "on_epoch_begin" /\ loop.epoch = 0) =>
               AppendedOneEach(EmptyDict, SingleGroupKeys)
        /\ (obs.hook = "on_epoch_end" /\ ~obs.complete) =>
               AppendedOneEach(obs.before, SingleGroupKeys)
        /\ (obs.hook = "on_epoch_end" /\ obs.complete) => model_lr_history = obs.before
        /\ obs.complete =>
               /\ DOMAIN model_lr_history = SingleGroupKeys
               /\ \A k \in SingleGroupKeys : Len(model_lr_history[k]) = lrh.n_epochs

C8_Witness ==
    /\ SingleScheduler /\ ~lrh.model.cyclic_lr
    /\ obs.complete
    /\ obs.batches >= 2
    /\ lrh.n_epochs = 2
    /\ LenAt(model_lr_history, "lr_1") = 2

\* C9: with a single cyclic scheduler every on_batch_end call appends one
\* value per group, no on_epoch_begin or on_epoch_end call appends any, and
\* each group's sequence is as long as the number of batches of the run.
C9_CyclicPerBatch ==
    (SingleScheduler /\ lrh.model.cyclic_lr) =>
        /\ obs.hook = "on_batch_end" => AppendedOneEach(obs.before, SingleGroupKeys)
        /\ obs.hook = "on_epoch_begin" =>
               model_lr_history = (IF loop.epoch = 0 THEN EmptyDict ELSE obs.before)
        /\ obs.hook = "on_epoch_end" => model_lr_history = obs.before
        /\ obs.hook # "none" =>
               \A k \in SingleGroupKeys : LenAt(model_lr_history, k) = obs.batches
        /\ DOMAIN model_lr_history \subseteq SingleGroupKeys

C9_Witness ==
    /\ SingleScheduler /\ lrh.model.cyclic_lr
    /\ obs.complete
    /\ lrh.n_epochs = 2
    /\ obs.batches = 3
    /\ LenAt(model_lr_history, "lr_1") = 3

MultipleScheduler ==
    Truthy(lrh.model.lr_scheduler) /\ LRHistory_multiple_scheduler(lrh.model)

\* the keys lr_<optimizer-name>_<group-index> of the named sub-optimizers `names`
SubGroupKeys(names) ==
    UNION {{"lr_" \o n \o "_" \o ToString(g) :
               g \in 0..(Len(SubOptimizers[n].param_groups) - 1)} : n \in names}

\* the sub-optimizers whose sub-scheduler is a cyclic one, and the others
CyclicNames ==
    {n \in {"wide", "deep"} :
        /\ n \in DOMAIN lrh.model.lr_scheduler[1].schedulers
        /\ lrh.model.lr_scheduler[1].schedulers[n] \in {"CyclicLR", "OneCycleLR"}}

NonCyclicNames == {"wide", "deep"} \ CyclicNames

\* C18: with a composite multi-optimizer scheduler, every on_batch_end call
\* appends one value per group of exactly the sub-optimizers whose
\* sub-scheduler is cyclic; every on_epoch_end call before the final epoch
\* appends for exactly the others (those without a sub-scheduler included),
\* the final one appends nothing; on_epoch_begin appends only at epoch 0;
\* all keys are lr_<optimizer-name>_<group-index>.
C18_MultiSchedulerRouting ==
    MultipleScheduler =>
        /\ obs.hook = "on_batch_end" => AppendedOneEach(obs.before, SubGroupKeys(CyclicNames))
        /\ (obs.hook = "on_epoch_end" /\ ~obs.complete) =>
               AppendedOneEach(obs.before, SubGroupKeys(NonCyclicNames))
        /\ (obs.hook = "on_epoch_end" /\ obs.complete) => model_lr_history = obs.before
        /\ (obs.hook = "on_epoch_begin" /\ loop.epoch # 0) => model_lr_history = obs.before
        /\ (obs.hook = "on_epoch_begin" /\ loop.epoch = 0) =>
               AppendedOneEach(EmptyDict, SubGroupKeys({"wide", "deep"}))
        /\ DOMAIN model_lr_history \subseteq {"lr_wide_0", "lr_deep_0", "lr_deep_1"}

C18_Witness ==
    /\ MultipleScheduler
    /\ CyclicNames = {"wide"}
    /\ "deep" \notin DOMAIN lrh.model.lr_scheduler[1].schedulers
    /\ obs.hook = "on_epoch_end"
    /\ ~obs.complete
    /\ obs.batches = 2
    /\ model_lr_history = [lr_wide_0 |-> <<3, 3, 3>>, lr_deep_0 |-> <<4, 4>>,
                           lr_deep_1 |-> <<6, 6>>]

----------------------------------------------------------------------------
(* ModelCheckpoint *)

\* Bound: the on_epoch_end calls made on one instance
MaxCalls == 4

\* np.Inf and -np.Inf: beyond every monitored value
Inf == 99

NegInf == -99

\* the monitored values the logs may hold
MetricValues == {2, 3, 4, 5}

Monitors == {"val_loss", "val_acc"}

\* `"acc" in monitor` and monitor.startswith("fmeasure") on the metric names
ContainsAcc(monitor) == monitor \in {"acc", "val_acc"}

StartsWithFmeasure(monitor) == monitor \in {"fmeasure"}

\* filepath.split("/"): a path is the sequence of its segments
FilePaths == {<<"weights_out">>, <<"checkpoints", "weights_out">>}

\* s[:-1]
AllButLast(s) == SubSeq(s, 1, Len(s) - 1)

\* np.less_equal / np.greater_equal in their place
MonitorOpOrEqual(op, a, b) == IF op = "less" THEN a <= b ELSE a >= b

\* np.less / np.greater
MonitorOp(op, a, b) == IF op = "less" THEN a < b ELSE a > b

\* "{}_{}.p" with the epoch index as it is, 0-based
FormatPathZeroBased(filepath, epoch) == <<filepath, epoch>>

\* "{}_{}.p".format(self.filepath, epoch + 1): the prefix and the 1-based epoch number
FormatPath(filepath, epoch) == <<filepath, epoch + 1>>

\* ("/").join(segments)
RECURSIVE Join(_)
Join(segments) ==
    IF Len(segments) = 0 THEN ""
    ELSE IF Len(segments) = 1 THEN segments[1]
    ELSE segments[1] \o "/" \o Join(Tail(segments))

\* os.path.exists(name) for a directory name: the empty name never exists
Exists(dirs, name) == name \in dirs

\* os.makedirs: the leaf directory and every missing parent come to exist;
\* the root, written as the empty leading segment, always exists
Makedirs(dirs, segments) ==
    dirs \cup ({Join(SubSeq(segments, 1, k)) : k \in 1..Len(segments)} \ {""})

\* __init__.  raised: the error the constructor ends with, "none" when it returns;
\* dirs: the directories that exist afterwards.  os.makedirs("") raises
\* FileNotFoundError.
ModelCheckpoint_init(dirs, filepath, monitor, verbose, save_best_only, mode, period, max_save) ==
    IF Len(AllButLast(filepath)) = 0
    THEN [raised |-> "ValueError", dirs |-> dirs]
    ELSE LET root_dir == Join(AllButLast(filepath))
             mode1 == IF mode \notin {"auto", "min", "max"} THEN "auto" ELSE mode
             op == CASE mode1 = "min" -> "less"
                     [] mode1 = "max" -> "greater"
                     [] OTHER -> IF ContainsAcc(monitor) \/ StartsWithFmeasure(monitor)
                                 THEN "greater" ELSE "less"
         IN  IF ~Exists(dirs, root_dir) /\ root_dir = ""
             THEN [raised |-> "FileNotFoundError", dirs |-> dirs]
             ELSE [raised |-> "none",
                   dirs |-> IF ~Exists(dirs, root_dir)
                            THEN Makedirs(dirs, AllButLast(filepath)) ELSE dirs,
                   filepath |-> filepath,
                   monitor |-> monitor,
                   verbose |-> verbose,
                   save_best_only |-> save_best_only,
                   mode |-> mode1,
                   period |-> period,
                   max_save |-> max_save,
                   epochs_since_last_save |-> 0,
                   old_files |-> <<>>,
                   monitor_op |-> op,
                   best |-> IF op = "less" THEN Inf ELSE NegInf]

\* What one on_epoch_end call leaves behind: the instance, the snapshot files,
\* the path it saved to and the path it removed (None when it did not),
\* whether it warned, and the error it raised: the one error the code meets,
\* FileNotFoundError from os.remove, is caught, so "none".
Outcome(self, snapshots, saved, removed, warned) ==
    [self |-> self, snapshots |-> snapshots, saved |-> saved, removed |-> removed,
     warned |-> warned, raised |-> "none"]

\* the skip of a cadence hit without the monitored value, forgetting the best so far
WarnAndSkipForgetful(self, snapshots) ==
    Outcome([self EXCEPT !.best = IF self.monitor_op = "less" THEN Inf ELSE NegInf],
            snapshots, None, None, TRUE)

\* `warnings.warn(... "skipping.")`: nothing else happens
WarnAndSkip(self, snapshots) == Outcome(self, snapshots, None, None, TRUE)

\* the eviction without its `except FileNotFoundError: pass`: os.remove of a
\* missing file ends the call after the save, before the list is updated
SaveAndEvictUncaught(self, snapshots, filepath) ==
    LET written == snapshots \cup {filepath}
    IN  IF self.max_save > 0
        THEN IF Len(self.old_files) = self.max_save
             THEN IF self.old_files[1] \in written
                  THEN Outcome([self EXCEPT !.old_files = Append(Tail(self.old_files), filepath)],
                               written \ {self.old_files[1]},
                               Some(filepath), Some(self.old_files[1]), FALSE)
                  ELSE [self |-> self, snapshots |-> written, saved |-> Some(filepath),
                        removed |-> None, warned |-> FALSE, raised |-> "FileNotFoundError"]
             ELSE Outcome([self EXCEPT !.old_files = Append(self.old_files, filepath)],
                          written, Some(filepath), None, FALSE)
        ELSE Outcome(self, written, Some(filepath), None, FALSE)

\* torch.save(...) to filepath, then the retention cap: once old_files holds
\* max_save paths the oldest is removed from disk (a missing file is passed
\* over) and dropped from the list; the new path is appended.
\* an eviction that removes the newest retained snapshot instead of the oldest
SaveAndEvictNewest(self, snapshots, filepath) ==
    LET written == snapshots \cup {filepath}
        n == Len(self.old_files)
    IN  IF self.max_save > 0
        THEN IF n = self.max_save
             THEN Outcome([self EXCEPT !.old_files =
                               Append(SubSeq(self.old_files, 1, n - 1), filepath)],
                          written \ {self.old_files[n]},
                          Some(filepath), Some(self.old_files[n]), FALSE)
             ELSE Outcome([self EXCEPT !.old_files = Append(self.old_files, filepath)],
                          written, Some(filepath), None, FALSE)
        ELSE Outcome(self, written, Some(filepath), None, FALSE)

SaveAndEvict(self, snapshots, filepath) ==
    LET written == snapshots \cup {filepath}
    IN  IF self.max_save > 0
        THEN IF Len(self.old_files) = self.max_save
             THEN Outcome([self EXCEPT !.old_files = Append(Tail(self.old_files), filepath)],
                          written \ {self.old_files[1]},
                          Some(filepath), Some(self.old_files[1]), FALSE)
             ELSE Outcome([self EXCEPT !.old_files = Append(self.old_files, filepath)],
                          written, Some(filepath), None, FALSE)
        ELSE Outcome(self, written, Some(filepath), None, FALSE)

ModelCheckpoint_on_epoch_end(self, snapshots, epoch, logs) ==
    LET logs1 == OrEmptyDict(logs)
        since == self.epochs_since_last_save + 1
    IN  IF since >= self.period
        THEN LET self1 == [self EXCEPT !.epochs_since_last_save = 0]
                 filepath == FormatPath(self.filepath, epoch)
             IN  IF self.save_best_only
                 THEN LET current == DictGet(logs1, self.monitor)
                      IN  IF IsNone(current)
                          THEN WarnAndSkip(self1, snapshots)
                          ELSE IF MonitorOp(self.monitor_op, current[1], self.best)
                               THEN SaveAndEvict([self1 EXCEPT !.best = current[1]],
                                                 snapshots, filepath)
                               ELSE Outcome(self1, snapshots, None, None, FALSE)
                 ELSE SaveAndEvict(self1, snapshots, filepath)
        ELSE Outcome([self EXCEPT !.epochs_since_last_save = since],
                     snapshots, None, None, FALSE)

\* Callback.on_train_begin, which ModelCheckpoint inherits: `pass`
Callback_on_train_begin(self, logs) == self

\* the logs the loop may hand to ModelCheckpoint
CkptLogs == {None} \cup {Some([k \in {m} |-> v]) : m \in Monitors, v \in MetricValues}

\* obs: what the calls so far did
\*   hook     the last hook called          value   the monitored value of the last call
\*   hit      the last call was a cadence hit
\*   wrote    the last call saved a snapshot
\*   before   the monitored values seen before the last call
\*   seen     the monitored values seen so far
\*   hits     cadence hits with a monitored value, this session
\*   saves    the paths saved, in order     removes the paths removed, in order
\*   epoch    the epoch index of the last on_epoch_end call
\*   warned   the last call warned           raised  the error the last call raised
\*   missing  the file the last call's eviction removed was not on disk
InitCheckpoint ==
    /\ IdleContainer
    /\ IdleHistory
    /\ IdleLR
    /\ IdleES
    /\ \E dirs \in SUBSET {"checkpoints"}, filepath \in FilePaths, monitor \in Monitors,
          save_best_only \in BOOLEAN, mode \in {"auto", "min", "max", "best"},
          period \in {1, 2}, max_save \in {-1, 1, 2} :
          LET r == ModelCheckpoint_init(dirs, filepath, monitor, 0, save_best_only, mode,
                                        period, max_save)
          IN  /\ mc = r
              /\ files = [dirs |-> r.dirs, snapshots |-> {}]
    /\ loop = [phase |-> "idle", epoch |-> 0, calls |-> 0]
    /\ obs = [hook |-> "none", value |-> None, hit |-> FALSE, wrote |-> FALSE,
              before |-> {}, seen |-> {}, hits |-> 0, saves |-> <<>>, removes |-> <<>>,
              epoch |-> 0, warned |-> FALSE, raised |-> "none", missing |-> FALSE]

\* a (new) training session starts on the same instance; its epochs count from 0
CkptOnTrainBegin ==
    /\ mc.raised = "none"
    /\ mc' = Callback_on_train_begin(mc, None)
    /\ loop' = [loop EXCEPT !.phase = "train", !.epoch = 0]
    /\ obs' = [obs EXCEPT !.hook = "on_train_begin", !.hits = 0, !.warned = FALSE,
                          !.raised = "none", !.missing = FALSE]
    /\ UNCHANGED <<files, exceptCkpt>>

CkptOnEpochEnd ==
    /\ mc.raised = "none"
    /\ loop.phase = "train"
    /\ loop.calls < MaxCalls
    /\ \E logs \in CkptLogs :
          LET r == ModelCheckpoint_on_epoch_end(mc, files.snapshots, loop.epoch, logs)
              value == DictGet(OrEmptyDict(logs), mc.monitor)
              hit == mc.epochs_since_last_save + 1 >= mc.period
          IN  /\ mc' = r.self
              /\ files' = [files EXCEPT !.snapshots = r.snapshots]
              /\ obs' = [hook |-> "on_epoch_end", value |-> value, hit |-> hit,
                         wrote |-> ~IsNone(r.saved),
                         before |-> obs.seen,
                         seen |-> obs.seen \cup {value[i] : i \in 1..Len(value)},
                         hits |-> obs.hits + (IF hit /\ ~IsNone(value) THEN 1 ELSE 0),
                         saves |-> obs.saves \o r.saved,
                         removes |-> obs.removes \o r.removed,
                         epoch |-> loop.epoch, warned |-> r.warned, raised |-> r.raised,
                         missing |-> \E i \in 1..Len(r.removed) :
                                        r.removed[i] \notin files.snapshots \cup
                                            {r.saved[j] : j \in 1..Len(r.saved)}]
    /\ loop' = [loop EXCEPT !.epoch = loop.epoch + 1, !.calls = loop.calls + 1]
    /\ UNCHANGED exceptCkpt

NextCheckpoint ==
    \/ CkptOnTrainBegin
    \/ CkptOnEpochEnd

SpecCheckpoint == InitCheckpoint /\ [][NextCheckpoint]_vars

\* the direction the configuration asks for: min and max say it, auto infers
\* "higher is better" from an accuracy or F-measure metric name
LowerIsBetter ==
    \/ mc.mode = "min"
    \/ mc.mode = "auto" /\ mc.monitor \notin {"val_acc", "acc", "fmeasure"}

StrictlyBetter(v, u) == IF LowerIsBetter THEN v < u ELSE v > u

\* on_epoch_end at epochs 0, 1, ... with the monitored values `values`, from
\* epoch `epoch` on: the snapshot files on disk afterwards
RECURSIVE RunEpochEnds(_, _, _, _)
RunEpochEnds(self, snapshots, values, epoch) ==
    IF epoch >= Len(values) THEN snapshots
    ELSE LET r == ModelCheckpoint_on_epoch_end(
                      self, snapshots, epoch, Some([k \in {self.monitor} |-> values[epoch + 1]]))
         IN  RunEpochEnds(r.self, r.snapshots, values, epoch + 1)

\* C4: with save_best_only and period 1, an on_epoch_end call with a
\* monitored value present saves a snapshot exactly when that value is
\* strictly better (lower for min, higher for max) than every monitored value
\* of the earlier calls, so the first one is always saved; and mode min with
\* values 5, 3, 4, 2 leaves exactly the snapshots of epochs 1, 2 and 4.
C4_BestOnlyWrites ==
    /\ (/\ mc.raised = "none"
        /\ mc.save_best_only
        /\ mc.period = 1
        /\ obs.hook = "on_epoch_end"
        /\ ~IsNone(obs.value))
       => (obs.wrote <=> \A u \in obs.before : StrictlyBetter(obs.value[1], u))
    /\ LET fp == <<"checkpoints", "weights_out">>
           self == ModelCheckpoint_init({}, fp, "val_loss", 0, TRUE, "min", 1, -1)
       IN  RunEpochEnds(self, {}, <<5, 3, 4, 2>>, 0) = {<<fp, 1>>, <<fp, 2>>, <<fp, 4>>}

C4_Witness ==
    /\ mc.raised = "none"
    /\ mc.save_best_only /\ mc.period = 1 /\ mc.mode = "min"
    /\ loop.calls = 4
    /\ obs.seen = {2, 3, 4, 5}
    /\ obs.value = Some(2)
    /\ obs.wrote
    /\ obs.saves = <<<<mc.filepath, 1>>, <<mc.filepath, 2>>, <<mc.filepath, 4>>>>

NoDuplicates(seq) == \A i, j \in 1..Len(seq) : i # j => seq[i] # seq[j]

Range(seq) == {seq[i] : i \in 1..Len(seq)}

Minimum(a, b) == IF a < b THEN a ELSE b

\* C5: with max_save = m > 0, after k saves to distinct paths the snapshot
\* files on disk are the min(k, m) most recently saved ones, and the paths
\* removed are, in order, the k - min(k, m) oldest saves (first in, first
\* out); with max_save = -1 nothing is ever removed.
C5_Retention ==
    mc.raised = "none" =>
        LET k == Len(obs.saves)
            kept == Minimum(k, mc.max_save)
        IN  /\ (mc.max_save > 0 /\ NoDuplicates(obs.saves)) =>
                   /\ files.snapshots = Range(SubSeq(obs.saves, k - kept + 1, k))
                   /\ Cardinality(files.snapshots) = kept
                   /\ obs.removes = SubSeq(obs.saves, 1, k - kept)
            /\ mc.max_save = -1 =>
                   /\ obs.removes = <<>>
                   /\ files.snapshots = Range(obs.saves)

C5_Witness ==
    /\ mc.raised = "none"
    /\ mc.max_save = 2
    /\ Len(obs.saves) = 3
    /\ NoDuplicates(obs.saves)
    /\ Cardinality(files.snapshots) = 2
    /\ obs.removes = <<obs.saves[1]>>

\* C10: right after on_train_begin of a session ModelCheckpoint's best is the
\* worst value for its direction, so with save_best_only the first cadence hit
\* of the session that has a monitored value saves a snapshot.
C10_BestResetAtTrainBegin ==
    mc.raised = "none" =>
        /\ obs.hook = "on_train_begin" =>
               mc.best = (IF mc.monitor_op = "less" THEN Inf ELSE NegInf)
        /\ (/\ mc.save_best_only
            /\ obs.hook = "on_epoch_end"
            /\ obs.hit
            /\ ~IsNone(obs.value)
            /\ obs.hits = 1) => obs.wrote

\* C14: with save_best_only off and period p >= 1, counting on_epoch_end
\* calls from construction, a call saves a snapshot exactly when its number
\* is a multiple of p, and the file saved by a call with epoch index e is
\* the path with the 1-based epoch number e + 1.
C14_CadencePerPeriod ==
    (/\ mc.raised = "none"
     /\ ~mc.save_best_only
     /\ mc.period >= 1
     /\ obs.hook = "on_epoch_end") =>
        /\ obs.wrote <=> (loop.calls % mc.period = 0)
        /\ obs.wrote => obs.saves[Len(obs.saves)] = <<mc.filepath, obs.epoch + 1>>
        /\ Len(obs.saves) = loop.calls \div mc.period

C14_Witness ==
    /\ mc.raised = "none"
    /\ ~mc.save_best_only
    /\ mc.period = 2
    /\ obs.hook = "on_epoch_end"
    /\ loop.calls = 4
    /\ obs.epoch = 1
    /\ obs.saves[Len(obs.saves)] = <<mc.filepath, 2>>
    /\ Len(obs.saves) = 2

\* C16: an on_epoch_end call with save_best_only that is a cadence hit and
\* whose logs lack the monitored metric warns and skips: it raises nothing,
\* writes and deletes no file, and leaves best and the retained-snapshot
\* list as they were.
C16_MissingMetricSkips ==
    [][(/\ mc.raised = "none"
        /\ mc.save_best_only
        /\ obs'.hook = "on_epoch_end"
        /\ obs'.hit
        /\ IsNone(obs'.value)) =>
           /\ obs'.warned
           /\ obs'.raised = "none"
           /\ ~obs'.wrote
           /\ files' = files
           /\ obs'.saves = obs.saves
           /\ obs'.removes = obs.removes
           /\ mc'.best = mc.best
           /\ mc'.old_files = mc.old_files]_vars

C16_Witness ==
    /\ mc.raised = "none"
    /\ mc.save_best_only
    /\ mc.max_save = 1
    /\ obs.hook = "on_epoch_end"
    /\ obs.hit
    /\ IsNone(obs.value)
    /\ obs.warned
    /\ mc.best = 3
    /\ Len(mc.old_files) = 1
    /\ Cardinality(files.snapshots) = 1

\* C21: with max_save > 0 and nobody else touching the directory, whatever
\* the sequence of on_epoch_end calls (sessions on a re-used instance that
\* pass the same epoch index again included), the snapshot a call saved is
\* on disk when the call returns, and every path of the retained-snapshot
\* list names a file on disk.
C21_RetainedFilesExist ==
    (mc.raised = "none" /\ mc.max_save > 0) =>
        /\ (obs.hook = "on_epoch_end" /\ obs.wrote) =>
               obs.saves[Len(obs.saves)] \in files.snapshots
        /\ Range(mc.old_files) \subseteq files.snapshots

\* The snapshot directory shared with others: between calls somebody else
\* may delete a snapshot file.
CkptFileRemoved ==
    /\ mc.raised = "none"
    /\ \E f \in files.snapshots : files' = [files EXCEPT !.snapshots = @ \ {f}]
    /\ obs' = [obs EXCEPT !.hook = "removed by others"]
    /\ UNCHANGED <<mc, loop, exceptCkpt>>

NextShared ==
    \/ CkptOnTrainBegin
    \/ CkptOnEpochEnd
    \/ CkptFileRemoved

\* a checkpoint with a retention cap, constructed in an existing directory
InitShared ==
    /\ IdleContainer
    /\ IdleHistory
    /\ IdleLR
    /\ IdleES
    /\ \E save_best_only \in BOOLEAN, mode \in {"min", "max"}, period \in {1, 2},
          max_save \in {1, 2} :
          LET r == ModelCheckpoint_init({"checkpoints"}, <<"checkpoints", "weights_out">>,
                                        "val_loss", 0, save_best_only, mode, period, max_save)
          IN  /\ mc = r
              /\ files = [dirs |-> r.dirs, snapshots |-> {}]
    /\ loop = [phase |-> "idle", epoch |-> 0, calls |-> 0]
    /\ obs = [hook |-> "none", value |-> None, hit |-> FALSE, wrote |-> FALSE,
              before |-> {}, seen |-> {}, hits |-> 0, saves |-> <<>>, removes |-> <<>>,
              epoch |-> 0, warned |-> FALSE, raised |-> "none", missing |-> FALSE]

SpecShared == InitShared /\ [][NextShared]_vars

\* C20: an on_epoch_end call that saves when the retention cap is reached
\* and the oldest retained snapshot is no longer on disk raises nothing,
\* writes the new snapshot, and updates the retained list as if the deletion
\* had happened: the oldest entry dropped, the new path appended.
C20_EvictionToleratesMissingFile ==
    [][(/\ mc.raised = "none"
        /\ mc.max_save > 0
        /\ Len(mc.old_files) = mc.max_save
        /\ mc.old_files[1] \notin files.snapshots
        /\ obs'.hook = "on_epoch_end"
        /\ obs'.wrote) =>
           LET filepath == <<mc.filepath, obs'.epoch + 1>>
           IN  /\ obs'.raised = "none"
               /\ filepath \in files'.snapshots \/ filepath = mc.old_files[1]
               /\ files'.snapshots \ {filepath} = files.snapshots \ {filepath}
               /\ mc'.old_files = Append(Tail(mc.old_files), filepath)]_vars

C20_Witness ==
    /\ mc.raised = "none"
    /\ mc.max_save = 2
    /\ obs.hook = "on_epoch_end"
    /\ obs.wrote
    /\ obs.raised = "none"
    /\ Len(obs.saves) = 3
    /\ NoDuplicates(obs.saves)
    /\ obs.missing
    /\ mc.old_files = <<obs.saves[2], obs.saves[3]>>
    /\ files.snapshots = {obs.saves[2], obs.saves[3]}

\* Construction on its own: the caller's arguments and the directories on
\* disk beforehand, then __init__.
\* the file paths a caller may pass, split at "/": no directory, a relative
\* directory, nested directories, a file directly under the root ("/weights_out"),
\* and an absolute directory
ConstructorPaths ==
    {<<"weights_out">>, <<"checkpoints", "weights_out">>,
     <<"checkpoints", "run", "weights_out">>, <<"", "weights_out">>,
     <<"", "tmp", "weights_out">>}

\* the directories that may exist beforehand (a directory's parent exists)
DiskDirs == {{}, {"checkpoints"}, {"checkpoints", "checkpoints/run"}, {"/tmp"}}

\* obs: args the constructor's arguments, dirs the directories beforehand,
\* hook the last operation
InitConstruct ==
    /\ IdleContainer
    /\ IdleHistory
    /\ IdleLR
    /\ IdleES
    /\ mc = [raised |-> "not constructed"]
    /\ \E dirs \in DiskDirs, filepath \in ConstructorPaths, monitor \in Monitors,
          save_best_only \in BOOLEAN, mode \in {"auto", "min", "max", "best"},
          max_save \in {-1, 2} :
          /\ files = [dirs |-> dirs, snapshots |-> {}]
          /\ obs = [hook |-> "none", dirs |-> dirs,
                    args |-> [filepath |-> filepath, monitor |-> monitor,
                              save_best_only |-> save_best_only, mode |-> mode,
                              max_save |-> max_save]]
    /\ loop = [phase |-> "idle", epoch |-> 0, calls |-> 0]

CkptConstruct ==
    /\ mc.raised = "not constructed"
    /\ LET r == ModelCheckpoint_init(files.dirs, obs.args.filepath, obs.args.monitor, 0,
                                     obs.args.save_best_only, obs.args.mode, 1,
                                     obs.args.max_save)
       IN  /\ mc' = r
           /\ files' = [files EXCEPT !.dirs = r.dirs]
    /\ obs' = [obs EXCEPT !.hook = "__init__"]
    /\ UNCHANGED <<loop, exceptCkpt>>

NextConstruct == CkptConstruct

SpecConstruct == InitConstruct /\ [][NextConstruct]_vars

\* the directory a split path names, and whether it is on disk (the root is)
DirectoryOf(filepath) == Join(AllButLast(filepath))

OnDisk(dirs, filepath) == AllButLast(filepath) = <<"">> \/ DirectoryOf(filepath) \in dirs

\* C13: constructing ModelCheckpoint with a file path that has no directory
\* segment raises the configuration error (ValueError) and creates no
\* directory; with any file path that has a directory segment construction
\* succeeds and that directory exists afterwards.
C13_PathCheckedAtConstruction ==
    obs.hook = "__init__" =>
        IF Len(obs.args.filepath) <= 1
        THEN mc.raised = "ValueError" /\ files.dirs = obs.dirs
        ELSE mc.raised = "none" /\ OnDisk(files.dirs, obs.args.filepath)

----------------------------------------------------------------------------
(* EarlyStopping *)

\* Bound: the epochs trained, over all sessions, with one instance
MaxCallsES == 4

ESValues == {2, 3, 4}

\* min_delta taken as given, whatever the direction
UnsignedMinDelta(op, min_delta) == min_delta

\* `if self.monitor_op == np.greater: self.min_delta *= 1 else: self.min_delta *= -1`
SignedMinDelta(op, min_delta) ==
    IF op = "greater" THEN min_delta * 1 ELSE min_delta * (-1)

\* __init__.  best is set by on_train_begin only: None until then.
EarlyStopping_init(monitor, min_delta, patience, verbose, mode, baseline, restore_best_weights) ==
    LET mode1 == IF mode \notin {"auto", "min", "max"} THEN "auto" ELSE mode
        op == CASE mode1 = "min" -> "less"
                [] mode1 = "max" -> "greater"
                [] OTHER -> IF ContainsAcc(monitor) THEN "greater" ELSE "less"
    IN  [monitor |-> monitor,
         min_delta |-> SignedMinDelta(op, min_delta),
         patience |-> patience,
         verbose |-> verbose,
         mode |-> mode1,
         baseline |-> baseline,
         restore_best_weights |-> restore_best_weights,
         wait |-> 0,
         stopped_epoch |-> 0,
         state_dict |-> None,
         monitor_op |-> op,
         best |-> None]

EarlyStopping_on_train_begin(self, logs) ==
    [self EXCEPT !.wait = 0,
                 !.stopped_epoch = 0,
                 !.best = IF ~IsNone(self.baseline) THEN self.baseline
                          ELSE IF self.monitor_op = "less" THEN Some(Inf) ELSE Some(NegInf)]

\* model.state_dict(): the weights, as a snapshot of their value
state_dict(model) == Some(model.weights)

\* model.load_state_dict(sd)
load_state_dict(model, sd) == [model EXCEPT !.weights = sd[1]]

\* What one on_epoch_end call leaves behind: the instance, the model's fields
\* [early_stop, weights], the error it raised ("none" when it returned), and
\* whether it ran `self.model.early_stop = True`.
ESOutcome(self, model, raised, set_stop) ==
    [self |-> self, model |-> model, raised |-> raised, set_stop |-> set_stop]

\* a patience test that fires one epoch late
PatienceSpentLate(self) == self.wait > self.patience

\* `self.wait >= self.patience`
PatienceSpent(self) == self.wait >= self.patience

\* get_monitor_value then the improvement test.  logs.get on None raises
\* AttributeError; load_state_dict(None) raises after the flag is set.
EarlyStopping_on_epoch_end(self, model, epoch, logs) ==
    IF IsNone(logs) THEN ESOutcome(self, model, "AttributeError", FALSE)
    ELSE
    LET current == DictGet(logs[1], self.monitor)
    IN  IF IsNone(current) THEN ESOutcome(self, model, "none", FALSE)
        ELSE IF MonitorOp(self.monitor_op, current[1] - self.min_delta, self.best[1])
        THEN ESOutcome([self EXCEPT !.best = current,
                                    !.wait = 0,
                                    !.state_dict = IF self.restore_best_weights
                                                   THEN state_dict(model) ELSE @],
                       model, "none", FALSE)
        ELSE LET self1 == [self EXCEPT !.wait = self.wait + 1]
             IN  IF PatienceSpent(self1)
                 THEN LET self2 == [self1 EXCEPT !.stopped_epoch = epoch]
                          model1 == [model EXCEPT !.early_stop = TRUE]
                      IN  IF self.restore_best_weights
                          THEN IF IsNone(self2.state_dict)
                               THEN ESOutcome(self2, model1, "load_state_dict(None)", TRUE)
                               ELSE ESOutcome(self2, load_state_dict(model1, self2.state_dict),
                                              "none", TRUE)
                          ELSE ESOutcome(self2, model1, "none", TRUE)
                 ELSE ESOutcome(self1, model, "none", FALSE)

\* on_train_end: whether the early-stopping message is printed
EarlyStopping_on_train_end(self, logs) ==
    self.stopped_epoch > 0 /\ self.verbose > 0

\* the logs the loop may hand to EarlyStopping
ESLogs == {None, Some(EmptyDict)}
              \cup {Some([k \in {m} |-> v]) : m \in Monitors, v \in ESValues}

ModelOfES == [early_stop |-> model_early_stop, weights |-> model_weights]

\* the direction and the threshold the configuration asks for
ESLowerIsBetter(monitor, mode) ==
    \/ mode = "min"
    \/ mode \notin {"min", "max"} /\ monitor \notin {"val_acc", "acc"}

\* obs: what the session so far did
\*   cfg      the constructor's arguments
\*   hook     the last hook called          raised  the error it raised
\*   set_stop the last call set model.early_stop
\*   stale    the last call had a monitored value that did not improve
\*   streak   the consecutive epochs with a monitored value that did not improve
\*   ref      the value to improve on: the baseline, then each improving value
\*   top      the best epoch of the session: the value of the last epoch that
\*            improved, and the weights the model held at the end of it
\*   unlogged some epoch of the session had no monitored value in its logs
\*   message  the last on_train_end printed the early-stopping message
\*   value    the monitored value in the logs of the last on_epoch_end (None: absent)
\*   stopped  some on_epoch_end of the session set model.early_stop
InitEarlyStop ==
    /\ IdleContainer
    /\ IdleHistory
    /\ IdleLR
    /\ IdleCkpt
    /\ \E monitor \in Monitors, min_delta \in {0, 1}, patience \in {1, 2}, verbose \in {0, 1},
          mode \in {"auto", "min", "max", "best"}, baseline \in {None, Some(3)},
          restore_best_weights \in BOOLEAN :
          /\ es = EarlyStopping_init(monitor, min_delta, patience, verbose, mode, baseline,
                                     restore_best_weights)
          /\ obs = [cfg |-> [monitor |-> monitor, min_delta |-> min_delta, mode |-> mode,
                             baseline |-> baseline],
                    hook |-> "none", raised |-> "none", set_stop |-> FALSE,
                    stale |-> FALSE, streak |-> 0,
                    ref |-> None, top |-> None, unlogged |-> FALSE, message |-> FALSE,
                    value |-> None, stopped |-> FALSE]
    /\ model_early_stop = FALSE
    /\ model_weights = 0
    /\ loop = [phase |-> "idle", epoch |-> 0, calls |-> 0]

\* a (new) training session starts; the trainer may or may not clear a stop
\* flag left by an earlier session
ESOnTrainBegin ==
    /\ loop.phase = "idle"
    /\ es' = EarlyStopping_on_train_begin(es, None)
    /\ \E clear \in BOOLEAN : model_early_stop' = (model_early_stop /\ ~clear)
    /\ loop' = [loop EXCEPT !.phase = "train", !.epoch = 0]
    /\ obs' = [obs EXCEPT !.hook = "on_train_begin", !.raised = "none", !.set_stop = FALSE,
                          !.stale = FALSE, !.streak = 0, !.ref = obs.cfg.baseline, !.top = None,
                          !.unlogged = FALSE, !.message = FALSE, !.value = None,
                          !.stopped = FALSE]
    /\ UNCHANGED <<model_weights, exceptES>>

\* the loop trains one epoch: the weights change to ones the model never held
ESTrainEpoch ==
    /\ loop.phase = "train"
    /\ loop.calls < MaxCallsES
    /\ model_weights' = loop.calls + 1
    /\ loop' = [loop EXCEPT !.phase = "trained", !.calls = loop.calls + 1]
    /\ UNCHANGED <<es, model_early_stop, obs, exceptES>>

\* does value v improve on the reference r (None: nothing to improve on yet)?
ImprovesOn(v, r) ==
    \/ IsNone(r)
    \/ IF ESLowerIsBetter(obs.cfg.monitor, obs.cfg.mode)
       THEN v < r[1] - obs.cfg.min_delta
       ELSE v > r[1] + obs.cfg.min_delta

\* the epoch ends; an error aborts the session, a set stop flag halts it
ESOnEpochEnd ==
    /\ loop.phase = "trained"
    /\ \E logs \in ESLogs :
          LET r == EarlyStopping_on_epoch_end(es, ModelOfES, loop.epoch, logs)
              value == DictGet(OrEmptyDict(logs), es.monitor)
              improves == ~IsNone(value) /\ ImprovesOn(value[1], obs.ref)
          IN  /\ es' = r.self
              /\ model_early_stop' = r.model.early_stop
              /\ model_weights' = r.model.weights
              /\ loop' = [loop EXCEPT
                            !.phase = IF r.raised # "none" THEN "idle"
                                      ELSE IF r.model.early_stop THEN "halt" ELSE "train",
                            !.epoch = loop.epoch + 1]
              /\ obs' = [obs EXCEPT
                            !.hook = "on_epoch_end",
                            !.raised = r.raised,
                            !.set_stop = r.set_stop,
                            !.stale = ~IsNone(value) /\ ~improves,
                            !.streak = IF IsNone(value) THEN obs.streak
                                       ELSE IF improves THEN 0 ELSE obs.streak + 1,
                            !.ref = IF improves THEN value ELSE obs.ref,
                            !.unlogged = (obs.unlogged \/ IsNone(value)),
                            !.value = value,
                            !.stopped = (obs.stopped \/ r.set_stop),
                            !.top = IF improves
                                    THEN Some([value |-> value[1], weights |-> model_weights])
                                    ELSE obs.top]
    /\ UNCHANGED exceptES

\* training ends: all epochs done, or the loop saw the stop flag
ESOnTrainEnd ==
    /\ loop.phase \in {"train", "halt"}
    /\ loop' = [loop EXCEPT !.phase = "idle"]
    /\ obs' = [obs EXCEPT !.hook = "on_train_end", !.raised = "none",
                          !.message = EarlyStopping_on_train_end(es, None)]
    /\ UNCHANGED <<esVars, exceptES>>

NextEarlyStop ==
    \/ ESOnTrainBegin
    \/ ESTrainEpoch
    \/ ESOnEpochEnd
    \/ ESOnTrainEnd

SpecEarlyStop == InitEarlyStop /\ [][NextEarlyStop]_vars

\* on_train_begin, then on_epoch_end at epochs 0, 1, ... with the monitored
\* values `values`, by a loop that does not look at the stop flag: the flag
\* after each epoch
RECURSIVE StopFlags(_, _, _, _)
StopFlags(self, model, values, epoch) ==
    IF epoch >= Len(values) THEN <<>>
    ELSE LET r == EarlyStopping_on_epoch_end(
                      self, model, epoch, Some([k \in {self.monitor} |-> values[epoch + 1]]))
         IN  <<r.model.early_stop>> \o StopFlags(r.self, r.model, values, epoch + 1)

\* C6: in a session (after on_train_begin) with patience p >= 1, wait counts
\* the consecutive epochs that did not improve, and on_epoch_end sets the
\* stop flag exactly in the call that makes that count p, never earlier; with
\* p = 2, min_delta = 0, mode min and values 1, 1, 1, 1 the flag is first set
\* at the third epoch.
C6_StopAtPatience ==
    /\ (obs.hook = "on_epoch_end" /\ obs.raised # "AttributeError") =>
           /\ es.wait = obs.streak
           /\ obs.streak <= es.patience
           /\ obs.set_stop <=> (obs.stale /\ obs.streak = es.patience)
           /\ obs.set_stop => model_early_stop
    /\ LET self == EarlyStopping_on_train_begin(
                       EarlyStopping_init("val_loss", 0, 2, 0, "min", None, FALSE), None)
       IN  StopFlags(self, [early_stop |-> FALSE, weights |-> 0], <<1, 1, 1, 1>>, 0)
               = <<FALSE, FALSE, TRUE, TRUE>>

C6_Witness ==
    /\ obs.hook = "on_epoch_end"
    /\ es.patience = 2 /\ es.min_delta = 0 /\ es.mode = "min" /\ IsNone(es.baseline)
    /\ loop.epoch = 3
    /\ es.best = Some(2)
    /\ obs.streak = 2
    /\ obs.set_stop
    /\ model_early_stop

\* C7: with restore_best_weights, when a session whose epochs all logged the
\* monitored value has ended (the weights changed at every epoch), the model
\* holds the weights it held at the end of the epoch with the best monitored
\* value (the last epoch that improved on the best so far).
C7_BestWeightsAfterTraining ==
    (/\ obs.hook = "on_train_end"
     /\ es.restore_best_weights
     /\ ~IsNone(obs.top)
     /\ ~obs.unlogged) =>
        model_weights = obs.top[1].weights

\* C11: a re-used EarlyStopping instance: right after on_train_begin, whatever
\* happened in earlier sessions, the instance is in the state of a freshly
\* constructed one after its on_train_begin (wait = 0, stopped_epoch = 0,
\* best = the baseline or the worst value, no saved weights snapshot).
C11_ReusedLikeFresh ==
    obs.hook = "on_train_begin" =>
        es = EarlyStopping_on_train_begin(
                 EarlyStopping_init(obs.cfg.monitor, obs.cfg.min_delta, es.patience,
                                    es.verbose, obs.cfg.mode, obs.cfg.baseline,
                                    es.restore_best_weights),
                 None)

\* C15: an on_epoch_end call whose logs do not hold the monitored metric (the
\* logs None included) raises nothing and leaves best, wait, stopped_epoch,
\* the saved snapshot, the model's stop flag and the model's weights as they
\* were.
C15_AbsentMetricNoEffect ==
    [][(obs'.hook = "on_epoch_end" /\ loop.phase = "trained" /\ IsNone(obs'.value)) =>
           /\ obs'.raised = "none"
           /\ es' = es
           /\ model_early_stop' = model_early_stop
           /\ model_weights' = model_weights]_vars

\* C17: with min_delta d >= 0, an on_epoch_end call with a monitored value
\* improves exactly when the value beats best by more than d in the
\* favourable direction; then best becomes the value and wait 0, otherwise
\* best stays and wait grows by exactly 1.
C17_ImprovementByMinDelta ==
    [][(obs'.hook = "on_epoch_end" /\ loop.phase = "trained" /\ ~IsNone(obs'.value)) =>
           LET current == obs'.value[1]
               d == obs.cfg.min_delta
               improved == IF ESLowerIsBetter(obs.cfg.monitor, obs.cfg.mode)
                           THEN current < es.best[1] - d
                           ELSE current > es.best[1] + d
           IN  IF improved
               THEN es'.best = Some(current) /\ es'.wait = 0
               ELSE es'.best = es.best /\ es'.wait = es.wait + 1]_vars

C17_Witness ==
    /\ obs.hook = "on_epoch_end"
    /\ obs.cfg.min_delta = 1
    /\ ESLowerIsBetter(obs.cfg.monitor, obs.cfg.mode)
    /\ es.best = Some(3)
    /\ obs.value = Some(2)
    /\ obs.stale
    /\ es.wait = 1

\* C19: on_train_end with verbose > 0 prints the early-stopping message
\* exactly when an on_epoch_end of the session set the model's stop flag,
\* whatever the epoch index of that call.
C19_MessageIffStopped ==
    (obs.hook = "on_train_end" /\ es.verbose > 0) => (obs.message <=> obs.stopped)

\* C22: with restore_best_weights, in every configuration, an on_epoch_end
\* call that sets the stop flag and loads weights back into the model finds
\* a snapshot captured beforehand: the load is never given None.
C22_RestoreHasSnapshot ==
    (obs.hook = "on_epoch_end" /\ es.restore_best_weights /\ obs.set_stop) =>
        /\ ~IsNone(es.state_dict)
        /\ obs.raised = "none"

====
